---- MODULE Spec2Model ----
(***************************************************************************)
(* A model of pkg/lrucache: a fixed-capacity LRU cache built from a map    *)
(* (Cache: key -> *Node) and a doubly linked list of Node objects          *)
(* (Head = most recently used, Tail = least recently used).                *)
(*                                                                         *)
(* Pointers are node identifiers; nil is 0.  The Node objects live in the  *)
(* field "node" of the cache state, a function from the allocated          *)
(* identifiers to records [Key, Value, Prev, Next].                        *)
(***************************************************************************)
EXTENDS Integers, Sequences, FiniteSets, TLC

\* ------------------------------------------------------------------ bounds
MaxCapacity == 3
\* the goroutines calling one cache concurrently, and the largest capacity
\* and the keys they use
NumThreads == 2
ConcMaxCapacity == 2
ConcKeys == {"A", "B", "C"}
ConcValues == {"v1"}
Threads == 1..NumThreads

Keys == {"A", "B", "C", "D"}
Values == {"v1", "v2"}
\* capacities handed to NewLRUCache, the invalid ones included
CapArgs == (0 - 1)..MaxCapacity

nil == 0
NodeIds == 1..(Cardinality(Keys) + 1)

VARIABLES
    c,      \* the *LRUCache returned by NewLRUCache (NilCache when it failed)
    err,    \* TRUE iff NewLRUCache returned an error
    capArg, \* the capacity that was passed to NewLRUCache
    pre,    \* the cache as it was when the last public call began
    last,   \* the last public call: its name, arguments and return values
    ref,    \* reference LRU order kept side by side: keys, most recent first
    hist,   \* how the calls since the cache was last empty began (see HistAfter)
    pc,     \* concurrent callers: where each goroutine is in its call
    mutex,  \* c.mutex: the goroutine holding the write lock, those holding read locks
    local,  \* concurrent callers: each goroutine's call and its local variables
    batch,  \* what the last call returned when it was a BatchGet
    stats   \* the benchmark's CacheStats: hits and misses

vars == <<c, err, capArg, pre, last, ref, hist, pc, mutex, local, batch, stats>>

\* ------------------------------------------------------- data structures
\* type Node struct { Key, Value string; Prev, Next *Node }
Node(key, value, prev, next) ==
    [Key |-> key, Value |-> value, Prev |-> prev, Next |-> next]

EmptyMap == [k \in {} |-> nil]

\* the nil *LRUCache
NilCache == [isNil |-> TRUE]

\* type LRUCache struct { Capacity int; Head, Tail *Node; Cache map[string]*Node }
LRUCache(capacity, head, tail, cache, node) ==
    [Capacity |-> capacity, Head |-> head, Tail |-> tail, Cache |-> cache,
     node |-> node]

\* len(c.Cache)
len(m) == Cardinality(DOMAIN m)

\* m[key] = n
MapSet(m, key, n) == [k \in (DOMAIN m) \cup {key} |-> IF k = key THEN n ELSE m[k]]

\* delete(m, key)
MapDelete(m, key) == [k \in (DOMAIN m) \ {key} |-> m[k]]

\* The values of a map.
Range(f) == {f[x] : x \in DOMAIN f}

\* ---------------------------------------------------------- construction
\* Variant: the capacity check written as capacity < 0.
NewLRUCacheAllowsZero(capacity) ==
    IF capacity < 0
    THEN [cache |-> NilCache, err |-> TRUE]
    ELSE [cache |-> LRUCache(capacity, nil, nil, EmptyMap, EmptyMap),
          err |-> FALSE]

NewLRUCache(capacity) ==
    IF capacity <= 0
    THEN [cache |-> NilCache, err |-> TRUE]
    ELSE [cache |-> LRUCache(capacity, nil, nil, EmptyMap, EmptyMap),
          err |-> FALSE]

\* ------------------------------------------------------ list primitives
\* Variant: Head is not moved when the node removed is the head.
removeNodeKeepsHead(s, n) ==
    LET s1 == IF s.node[n].Prev # nil
              THEN [s EXCEPT !.node[s.node[n].Prev].Next = s.node[n].Next]
              ELSE s
    IN  IF s1.node[n].Next # nil
        THEN [s1 EXCEPT !.node[s1.node[n].Next].Prev = s1.node[n].Prev]
        ELSE [s1 EXCEPT !.Tail = s1.node[n].Prev]

\* removeNode: unlink node, fixing Head / Tail when node is at an end.
\* The two if statements run one after the other on the same memory.
removeNode(s, n) ==
    LET s1 == IF s.node[n].Prev # nil
              THEN [s EXCEPT !.node[s.node[n].Prev].Next = s.node[n].Next]
              ELSE [s EXCEPT !.Head = s.node[n].Next]
    IN  IF s1.node[n].Next # nil
        THEN [s1 EXCEPT !.node[s1.node[n].Next].Prev = s1.node[n].Prev]
        ELSE [s1 EXCEPT !.Tail = s1.node[n].Prev]

\* Variant: the old head's Prev is not set to the new node.
addToHeadNoBackLink(s, n) ==
    LET s1 == [s EXCEPT !.node[n].Prev = nil]
        s2 == [s1 EXCEPT !.node[n].Next = s1.Head]
        s4 == [s2 EXCEPT !.Head = n]
    IN  IF s4.Tail = nil THEN [s4 EXCEPT !.Tail = n] ELSE s4

\* addToHead: link node in front of Head.
addToHead(s, n) ==
    LET s1 == [s EXCEPT !.node[n].Prev = nil]
        s2 == [s1 EXCEPT !.node[n].Next = s1.Head]
        s3 == IF s2.Head # nil
              THEN [s2 EXCEPT !.node[s2.Head].Prev = n]
              ELSE s2
        s4 == [s3 EXCEPT !.Head = n]
    IN  IF s4.Tail = nil THEN [s4 EXCEPT !.Tail = n] ELSE s4

\* Variant: the node is left where it is.
moveToHeadSkips(s, n) == s

\* moveToHead: nothing when node is already Head, else unlink and relink.
moveToHead(s, n) ==
    IF s.Head = n THEN s ELSE addToHead(removeNode(s, n), n)

\* Variant: the node at the head is taken instead of the one at the tail.
removeTailTakesHead(s) ==
    IF s.Tail = nil
    THEN [c |-> s, tail |-> nil]
    ELSE [c |-> removeNode(s, s.Head), tail |-> s.Head]

\* removeTail: unlink the tail node and return it (nil on an empty list).
removeTail(s) ==
    IF s.Tail = nil
    THEN [c |-> s, tail |-> nil]
    ELSE [c |-> removeNode(s, s.Tail), tail |-> s.Tail]

\* ------------------------------------------------------------ allocation
\* &Node{...}: a fresh object; the lowest identifier not in use.
NewNodeId(s) ==
    CHOOSE n \in NodeIds \ DOMAIN s.node :
        \A m \in NodeIds \ DOMAIN s.node : n <= m

RECURSIVE Closure(_, _)
Closure(s, set) ==
    LET more == {s.node[n].Prev : n \in set} \cup {s.node[n].Next : n \in set}
        next == (set \cup more) \ {nil}
    IN  IF next = set THEN set ELSE Closure(s, next)

\* Node objects that can still be reached from the cache.
Reachable(s) == Closure(s, ({s.Head, s.Tail} \cup Range(s.Cache)) \ {nil})

\* Objects that nothing refers to any more are reclaimed by the runtime.
Collect(s) == [s EXCEPT !.node = [n \in Reachable(s) |-> s.node[n]]]

\* --------------------------------------------------------- public methods
\* Variant: a hit returns the value without moving the node.
GetNoPromote(s, key) ==
    IF key \in DOMAIN s.Cache
    THEN [c |-> s, value |-> s.node[s.Cache[key]].Value, ok |-> TRUE]
    ELSE [c |-> s, value |-> "", ok |-> FALSE]

\* Variant: a miss reports found = true.
GetMissFound(s, key) ==
    IF key \in DOMAIN s.Cache
    THEN LET n == s.Cache[key]
             s1 == moveToHead(s, n)
         IN  [c |-> s1, value |-> s1.node[n].Value, ok |-> TRUE]
    ELSE [c |-> s, value |-> "", ok |-> TRUE]

\* Get: (value, true) and the node moved to Head on a hit, ("", false) on a miss.
Get(s, key) ==
    IF key \in DOMAIN s.Cache
    THEN LET n == s.Cache[key]
             s1 == moveToHead(s, n)
         IN  [c |-> s1, value |-> s1.node[n].Value, ok |-> TRUE]
    ELSE [c |-> s, value |-> "", ok |-> FALSE]

\* Variant: the node is moved but the value is not overwritten.
updateExistingKeepsValue(s, n, value) == moveToHead(s, n)

\* Put, key present: overwrite the value and move the node to Head.
updateExisting(s, n, value) ==
    moveToHead([s EXCEPT !.node[n].Value = value], n)

\* Variant: the capacity check written as len(Cache) > Capacity.
evictIfOverFull(s) ==
    IF len(s.Cache) > s.Capacity
    THEN LET r == removeTail(s)
         IN  IF r.tail # nil
             THEN [r.c EXCEPT !.Cache = MapDelete(r.c.Cache, r.c.node[r.tail].Key)]
             ELSE r.c
    ELSE s

\* Variant: the evicted node is unlinked but not deleted from the map.
evictKeepsIndex(s) ==
    IF len(s.Cache) >= s.Capacity THEN removeTail(s).c ELSE s

\* Put, key absent, the capacity check: when len(Cache) >= Capacity the tail
\* is unlinked and, unless removeTail returned nil, deleted from the map.
evictIfFull(s) ==
    IF len(s.Cache) >= s.Capacity
    THEN LET r == removeTail(s)
         IN  IF r.tail # nil
             THEN [r.c EXCEPT !.Cache = MapDelete(r.c.Cache, r.c.node[r.tail].Key)]
             ELSE r.c
    ELSE s

\* newNode := &Node{Key: key, Value: value}
allocNode(s, n, key, value) ==
    [s EXCEPT !.node = [m \in (DOMAIN s.node) \cup {n} |->
                           IF m = n THEN Node(key, value, nil, nil) ELSE s.node[m]]]

\* Put, key absent: allocate the node, evict when full, index it, link it.
insertNew(s, key, value) ==
    LET newNode == NewNodeId(s)
        s1 == allocNode(s, newNode, key, value)
        s2 == evictIfFull(s1)
        s3 == [s2 EXCEPT !.Cache = MapSet(s2.Cache, key, newNode)]
    IN  Collect(addToHead(s3, newNode))

\* Variant: the capacity check and eviction come before the lookup.
PutEvictsFirst(s, key, value) ==
    LET s0 == evictIfFull(s)
    IN  IF key \in DOMAIN s0.Cache
        THEN updateExisting(s0, s0.Cache[key], value)
        ELSE insertNew(s0, key, value)

Put(s, key, value) ==
    IF key \in DOMAIN s.Cache
    THEN updateExisting(s, s.Cache[key], value)
    ELSE insertNew(s, key, value)

\* Variant: Tail is not reset.
ClearKeepsTail(s) == Collect([s EXCEPT !.Head = nil, !.Cache = EmptyMap])

\* Variant: Clear assigns a zero LRUCache with a new map, Capacity included.
ClearResetsCapacity(s) ==
    Collect([s EXCEPT !.Head = nil, !.Tail = nil, !.Cache = EmptyMap,
                      !.Capacity = 0])

\* Clear: drop the list and replace the map by an empty one.
Clear(s) == Collect([s EXCEPT !.Head = nil, !.Tail = nil, !.Cache = EmptyMap])

Size(s) == len(s.Cache)

IsEmpty(s) == len(s.Cache) = 0

\* Variant: the lookup is made with Get, which moves the node.
HasViaGet(s, key) == [c |-> Get(s, key).c, ok |-> Get(s, key).ok]

\* Has: a lookup in the map; the cache is only read.
Has(s, key) == [c |-> s, ok |-> key \in DOMAIN s.Cache]

\* ------------------------------------------------- reading the structure
\* The nodes met walking Next from n, at most fuel of them (a cycle stops).
RECURSIVE Walk(_, _, _)
Walk(s, n, fuel) ==
    IF n = nil \/ fuel = 0 \/ n \notin DOMAIN s.node
    THEN <<>>
    ELSE <<n>> \o Walk(s, s.node[n].Next, fuel - 1)

\* The nodes met walking Prev from n.
RECURSIVE WalkBack(_, _, _)
WalkBack(s, n, fuel) ==
    IF n = nil \/ fuel = 0 \/ n \notin DOMAIN s.node
    THEN <<>>
    ELSE <<n>> \o WalkBack(s, s.node[n].Prev, fuel - 1)

Fuel == Cardinality(NodeIds) + 1

\* The list from Head to Tail, as nodes and as keys.
ListNodes(s) == Walk(s, s.Head, Fuel)
ListKeys(s) ==
    LET ns == ListNodes(s) IN [i \in 1..Len(ns) |-> s.node[ns[i]].Key]

\* ------------------------------------------------- reference LRU model
RECURSIVE Without(_, _)
Without(seq, k) ==
    IF seq = <<>> THEN <<>>
    ELSE IF Head(seq) = k THEN Without(Tail(seq), k)
         ELSE <<Head(seq)>> \o Without(Tail(seq), k)

InSeq(seq, k) == \E i \in 1..Len(seq) : seq[i] = k

\* A use of k: k becomes the most recent key; the oldest key is dropped
\* when more than cap keys would be kept.
RefUse(r, k, cap) ==
    LET r1 == <<k>> \o Without(r, k)
    IN  IF Len(r1) > cap THEN SubSeq(r1, 1, cap) ELSE r1

\* ------------------------------------------------------------ the calls
Call(op, key, value, ret, ok, n) ==
    [op |-> op, key |-> key, value |-> value, ret |-> ret, ok |-> ok, n |-> n]

NoCall == Call("", "", "", "", FALSE, 0)

\* What BatchGet returned: the keys asked for, the mapping and anyFound.
Batch(keys, values, anyFound) ==
    [keys |-> keys, values |-> values, anyFound |-> anyFound]
NoBatch == Batch(<<>>, EmptyMap, FALSE)

\* CacheStats{hits, misses}
CacheStats(hits, misses) == [hits |-> hits, misses |-> misses]

(***************************************************************************)
(* hist follows the calls made since the cache was last empty (after       *)
(* NewLRUCache or Clear) for as long as they have this shape:              *)
(*   run  the keys of an unbroken opening run of Puts of distinct keys,    *)
(*        at most Capacity + 1 of them;                                    *)
(*   mid  the one Get, Has or Put of a present key made right after a run  *)
(*        of exactly Capacity keys;                                        *)
(*   fin  TRUE when the call after mid was a Put and has been made: it is  *)
(*        `last`.                                                          *)
(* Any other call ends the bookkeeping (live = FALSE) until the next Clear.*)
(***************************************************************************)
\* A goroutine's call (method and arguments) and the node its body works on.
Local(op, key, value, node) == [op |-> op, key |-> key, value |-> value, node |-> node]
NoLocal == Local("", "", "", nil)

FreshHist == [run |-> <<>>, mid |-> NoCall, fin |-> FALSE, live |-> TRUE]
DeadHist == [run |-> <<>>, mid |-> NoCall, fin |-> FALSE, live |-> FALSE]

HistAfter(h, s, call) ==
    IF call.op = "Clear" THEN FreshHist
    ELSE IF ~h.live \/ h.fin THEN DeadHist
    ELSE IF h.mid # NoCall
         THEN IF call.op = "Put" THEN [h EXCEPT !.fin = TRUE] ELSE DeadHist
    ELSE IF /\ call.op = "Put"
            /\ ~InSeq(h.run, call.key)
            /\ Len(h.run) <= s.Capacity
         THEN [h EXCEPT !.run = Append(h.run, call.key)]
    ELSE IF Len(h.run) = s.Capacity /\ call.op \in {"Get", "Has", "Put"}
         THEN [h EXCEPT !.mid = call]
    ELSE DeadHist

Init ==
    /\ capArg \in CapArgs
    /\ c = NewLRUCache(capArg).cache
    /\ err = NewLRUCache(capArg).err
    /\ pre = c
    /\ last = Call("NewLRUCache", "", "", "", ~NewLRUCache(capArg).err, capArg)
    /\ ref = <<>>
    /\ hist = FreshHist
    /\ pc = [t \in Threads |-> "idle"]
    /\ mutex = [w |-> 0, r |-> {}, p |-> 0, b |-> {}]
    /\ local = [t \in Threads |-> NoLocal]
    /\ batch = NoBatch
    /\ stats = CacheStats(0, 0)

\* One public call on the constructed cache: the cache after it, what it
\* returned, and the bookkeeping.
Does(call, after, refAfter) ==
    /\ err = FALSE
    /\ c' = after
    /\ pre' = c
    /\ last' = call
    /\ ref' = refAfter
    /\ hist' = HistAfter(hist, c, call)
    /\ batch' = NoBatch
    /\ UNCHANGED <<err, capArg, pc, mutex, local, stats>>

DoGet(key) ==
    LET r == Get(c, key)
    IN  Does(Call("Get", key, "", r.value, r.ok, 0), r.c,
             IF InSeq(ref, key) THEN RefUse(ref, key, capArg) ELSE ref)

DoPut(key, value) ==
    Does(Call("Put", key, value, "", TRUE, 0),
         Put(c, key, value),
         RefUse(ref, key, capArg))

DoHas(key) ==
    LET r == Has(c, key)
    IN  Does(Call("Has", key, "", "", r.ok, 0), r.c, ref)

DoSize == Does(Call("Size", "", "", "", TRUE, Size(c)), c, ref)

DoIsEmpty == Does(Call("IsEmpty", "", "", "", IsEmpty(c), 0), c, ref)

DoClear == Does(Call("Clear", "", "", "", TRUE, 0), Clear(c), <<>>)

Next ==
    \/ \E key \in Keys : DoGet(key)
    \/ \E key \in Keys, value \in Values : DoPut(key, value)
    \/ \E key \in Keys : DoHas(key)
    \/ DoSize
    \/ DoIsEmpty
    \/ DoClear

Spec == Init /\ [][Next]_vars

\* ------------------------------------------------------------- batches
MaxBatch == 2

\* The key sequences handed to BatchGet.
BatchArgs == UNION {[1..n -> ConcKeys] : n \in 0..MaxBatch}

\* BatchGet's loop: a Get for each key in sequence order; the value it
\* returned, "" on a miss, is stored under the key.
RECURSIVE BatchGetFrom(_, _, _)
BatchGetFrom(s, keys, result) ==
    IF keys = <<>>
    THEN [c |-> s, values |-> result]
    ELSE LET g == Get(s, Head(keys))
         IN  BatchGetFrom(g.c, Tail(keys), MapSet(result, Head(keys), g.value))

\* BatchGet(keys): the mapping, and anyFound = the mapping is not empty.
BatchGet(s, keys) ==
    LET r == BatchGetFrom(s, keys, EmptyMap)
    IN  [c |-> r.c, values |-> r.values, ok |-> len(r.values) > 0]

\* The reference order after a Get of each key in turn.
RECURSIVE GetEach(_, _, _)
GetEach(r, keys, cap) ==
    IF keys = <<>> THEN r
    ELSE GetEach(IF InSeq(r, Head(keys)) THEN RefUse(r, Head(keys), cap) ELSE r,
                 Tail(keys), cap)

DoBatchGet(keys) ==
    LET r == BatchGet(c, keys)
    IN  /\ err = FALSE
        /\ c' = r.c
        /\ pre' = c
        /\ last' = Call("BatchGet", "", "", "", r.ok, Len(keys))
        /\ batch' = Batch(keys, r.values, r.ok)
        /\ ref' = GetEach(ref, keys, capArg)
        /\ hist' = DeadHist
        /\ UNCHANGED <<err, capArg, pc, mutex, local, stats>>

BatchNext ==
    \/ \E key \in ConcKeys, value \in Values : DoPut(key, value)
    \/ \E keys \in BatchArgs : DoBatchGet(keys)

BatchInit == Init /\ capArg \in 1..ConcMaxCapacity

BatchSpec == BatchInit /\ [][BatchNext]_vars

\* ---------------------------------------------------- concurrent callers
(***************************************************************************)
(* Goroutines call the methods of one cache.  A call takes c.mutex (Lock   *)
(* in Get, Put and Clear, RLock in Size, IsEmpty and Has), runs the body   *)
(* statement by statement and releases the mutex on return (defer).        *)
(***************************************************************************)
Methods == {"Get", "Put", "Clear", "Size", "IsEmpty", "Has"}

\* Variant: Clear takes the read lock.
lockKindClearShared(op) == IF op \in {"Size", "IsEmpty", "Has", "Clear"} THEN "r" ELSE "w"

\* Variant: Get takes the read lock.
lockKindGetShared(op) == IF op \in {"Size", "IsEmpty", "Has", "Get"} THEN "r" ELSE "w"

\* c.mutex.Lock() or c.mutex.RLock(), by method.
lockKind(op) == IF op \in {"Size", "IsEmpty", "Has"} THEN "r" ELSE "w"

\* The reference order after a call of op on key takes effect on cache s.
RefAfter(r, s, op, key) ==
    IF op = "Put" THEN RefUse(r, key, s.Capacity)
    ELSE IF op = "Get" /\ InSeq(r, key) THEN RefUse(r, key, s.Capacity)
    ELSE IF op = "Clear" THEN <<>>
    ELSE r

\* Objects still referred to by the cache or by a goroutine's local variable.
CollectWith(s, roots) ==
    [s EXCEPT !.node =
        [n \in Closure(s, (Reachable(s) \cup roots) \ {nil}) |-> s.node[n]]]

LocalNodes(skip) == {local[u].node : u \in Threads \ {skip}}

Goto(t, label) == pc' = [pc EXCEPT ![t] = label]

\* What a step inside a call leaves alone.
Seq1 == UNCHANGED <<err, capArg, pre, last, hist, batch, stats>>

\* The arguments a method's critical section works on: a key for Get and
\* Put, a value for Put.  Has reads its key in its one statement, TRead.
ArgsOf(op, key, value) ==
    /\ key \in (IF op \in {"Get", "Put"} THEN ConcKeys ELSE {""})
    /\ value \in (IF op = "Put" THEN ConcValues ELSE {""})

\* A goroutine calls a method and reaches its first statement, the Lock or
\* RLock.  The arguments are not read before the lock is held: they are
\* drawn in TLock / TRLock.
TCall(t, op) ==
    /\ err = FALSE
    /\ pc[t] = "idle"
    /\ local' = [local EXCEPT ![t] = Local(op, "", "", nil)]
    /\ Goto(t, "lock")
    /\ UNCHANGED <<c, ref, mutex>> /\ Seq1

\* c.mutex.Lock() returns: the goroutine got the mutex with no reader inside,
\* or it had announced itself and the last reader inside has left.
TLock(t, key, value) ==
    /\ lockKind(local[t].op) = "w"
    /\ ArgsOf(local[t].op, key, value)
    /\ \/ pc[t] = "lock" /\ mutex.w = 0 /\ mutex.p = 0
       \/ pc[t] = "wait" /\ mutex.p = t
    /\ mutex.r = {}
    /\ mutex' = [mutex EXCEPT !.w = t, !.p = 0]
    /\ local' = [local EXCEPT ![t].key = key, ![t].value = value]
    /\ ref' = RefAfter(ref, c, local[t].op, key)
    /\ Goto(t, "body")
    /\ UNCHANGED c /\ Seq1

\* c.mutex.Lock() with readers inside: the goroutine holds the writers' mutex
\* and waits for the readers inside to leave; RLock calls made from now on
\* block until it has unlocked.
TAnnounce(t) ==
    /\ pc[t] = "lock"
    /\ lockKind(local[t].op) = "w"
    /\ mutex.w = 0 /\ mutex.p = 0
    /\ mutex.r # {}
    /\ mutex' = [mutex EXCEPT !.p = t]
    /\ Goto(t, "wait")
    /\ UNCHANGED <<c, ref, local>> /\ Seq1

\* c.mutex.RLock() returns at once: no writer is inside or waiting.
TRLock(t, key, value) ==
    /\ pc[t] = "lock"
    /\ lockKind(local[t].op) = "r"
    /\ ArgsOf(local[t].op, key, value)
    /\ mutex.w = 0 /\ mutex.p = 0
    /\ mutex' = [mutex EXCEPT !.r = mutex.r \cup {t}]
    /\ local' = [local EXCEPT ![t].key = key, ![t].value = value]
    /\ ref' = RefAfter(ref, c, local[t].op, key)
    /\ Goto(t, "body")
    /\ UNCHANGED c /\ Seq1

\* c.mutex.RLock() with a writer inside or waiting: the goroutine blocks
\* until that writer's Unlock lets it in.
TRBlock(t) ==
    /\ pc[t] = "lock"
    /\ lockKind(local[t].op) = "r"
    /\ mutex.w # 0 \/ mutex.p # 0
    /\ mutex' = [mutex EXCEPT !.b = mutex.b \cup {t}]
    /\ Goto(t, "rwait")
    /\ UNCHANGED <<c, ref, local>> /\ Seq1

\* Variant: the new entry is indexed and linked before the capacity check.
putStepInsertFirst(label) ==
    CASE label = "alloc" -> "index"
      [] label = "index" -> "link"
      [] label = "link" -> "evict"
      [] OTHER -> "unlock"

\* Put, key absent: the statement that follows each statement.
putStep(label) ==
    CASE label = "alloc" -> "evict"
      [] label = "evict" -> "index"
      [] label = "index" -> "link"
      [] OTHER -> "unlock"

\* Get: the map lookup, and moveToHead's test for node being Head.
TGetLookup(t) ==
    /\ pc[t] = "body" /\ local[t].op = "Get"
    /\ IF local[t].key \in DOMAIN c.Cache
       THEN /\ local' = [local EXCEPT ![t].node = c.Cache[local[t].key]]
            /\ Goto(t, IF c.Head = c.Cache[local[t].key] THEN "unlock" ELSE "remove")
       ELSE /\ Goto(t, "unlock")
            /\ UNCHANGED local
    /\ UNCHANGED <<c, ref, mutex>> /\ Seq1

\* Put: the map lookup; the value overwritten and moveToHead's test when the
\* key exists, the new node allocated when it does not.
TPutLookup(t) ==
    /\ pc[t] = "body" /\ local[t].op = "Put"
    /\ IF local[t].key \in DOMAIN c.Cache
       THEN LET n == c.Cache[local[t].key]
            IN  /\ local' = [local EXCEPT ![t].node = n]
                /\ c' = [c EXCEPT !.node[n].Value = local[t].value]
                /\ Goto(t, IF c.Head = n THEN "unlock" ELSE "remove")
       ELSE LET n == NewNodeId(c)
            IN  /\ local' = [local EXCEPT ![t].node = n]
                /\ c' = allocNode(c, n, local[t].key, local[t].value)
                /\ Goto(t, putStep("alloc"))
    /\ UNCHANGED <<ref, mutex>> /\ Seq1

\* moveToHead: c.removeNode(node)
TRemoveNode(t) ==
    /\ pc[t] = "remove"
    /\ c' = removeNode(c, local[t].node)
    /\ Goto(t, "add")
    /\ UNCHANGED <<ref, mutex, local>> /\ Seq1

\* Put: the capacity check, removeTail and the delete from the map.
TEvict(t) ==
    /\ pc[t] = "evict"
    /\ c' = evictIfFull(c)
    /\ Goto(t, putStep("evict"))
    /\ UNCHANGED <<ref, mutex, local>> /\ Seq1

\* Put: c.Cache[key] = newNode
TIndex(t) ==
    /\ pc[t] = "index"
    /\ c' = [c EXCEPT !.Cache = MapSet(c.Cache, local[t].key, local[t].node)]
    /\ Goto(t, putStep("index"))
    /\ UNCHANGED <<ref, mutex, local>> /\ Seq1

\* c.addToHead(node): in moveToHead ("add"), and at the end of Put for a new
\* key ("link").
TAddToHead(t) ==
    /\ pc[t] \in {"add", "link"}
    /\ c' = addToHead(c, local[t].node)
    /\ Goto(t, IF pc[t] = "link" THEN putStep("link") ELSE "unlock")
    /\ UNCHANGED <<ref, mutex, local>> /\ Seq1

\* Clear: c.Head = nil; c.Tail = nil
TClearList(t) ==
    /\ pc[t] = "body" /\ local[t].op = "Clear"
    /\ c' = [c EXCEPT !.Head = nil, !.Tail = nil]
    /\ Goto(t, "remake")
    /\ UNCHANGED <<ref, mutex, local>> /\ Seq1

\* Clear: c.Cache = make(map[string]*Node)
TClearMap(t) ==
    /\ pc[t] = "remake"
    /\ c' = [c EXCEPT !.Cache = EmptyMap]
    /\ Goto(t, "unlock")
    /\ UNCHANGED <<ref, mutex, local>> /\ Seq1

\* Size, IsEmpty, Has: the read of the map, for Has with any key.
TRead(t) ==
    /\ pc[t] = "body" /\ local[t].op \in {"Size", "IsEmpty", "Has"}
    /\ \E key \in ConcKeys : Has(c, key).c = c
    /\ Goto(t, "unlock")
    /\ UNCHANGED <<c, ref, mutex, local>> /\ Seq1

\* Variant: a Get that missed returns without unlocking.
TUnlockMissHolds(t) ==
    /\ pc[t] = "unlock"
    /\ mutex' = IF local[t].op = "Get" /\ local[t].node = nil THEN mutex
                ELSE IF mutex.w = t
                THEN [mutex EXCEPT !.w = 0, !.r = mutex.b, !.b = {}]
                ELSE [mutex EXCEPT !.r = mutex.r \ {t}]
    /\ c' = CollectWith(c, LocalNodes(t))
    /\ local' = [local EXCEPT ![t] = NoLocal]
    /\ pc' = [u \in Threads |->
                 IF u = t THEN "idle"
                 ELSE IF mutex.w = t /\ u \in mutex.b THEN "body"
                 ELSE pc[u]]
    /\ UNCHANGED ref /\ Seq1

\* The deferred Unlock / RUnlock; the call returns.  A writer's Unlock lets
\* in the readers blocked behind it.
TUnlock(t) ==
    /\ pc[t] = "unlock"
    /\ mutex' = IF mutex.w = t
                THEN [mutex EXCEPT !.w = 0, !.r = mutex.b, !.b = {}]
                ELSE [mutex EXCEPT !.r = mutex.r \ {t}]
    /\ c' = CollectWith(c, LocalNodes(t))
    /\ local' = [local EXCEPT ![t] = NoLocal]
    /\ pc' = [u \in Threads |->
                 IF u = t THEN "idle"
                 ELSE IF mutex.w = t /\ u \in mutex.b THEN "body"
                 ELSE pc[u]]
    /\ UNCHANGED ref /\ Seq1

ConcNext ==
    \E t \in Threads :
        \/ \E op \in Methods : TCall(t, op)
        \/ \E key \in ConcKeys \cup {""}, value \in ConcValues \cup {""} :
              TLock(t, key, value)
        \/ \E key \in ConcKeys \cup {""}, value \in ConcValues \cup {""} :
              TRLock(t, key, value)
        \/ TAnnounce(t)
        \/ TRBlock(t)
        \/ TGetLookup(t)
        \/ TPutLookup(t)
        \/ TRemoveNode(t)
        \/ TEvict(t)
        \/ TIndex(t)
        \/ TAddToHead(t)
        \/ TClearList(t)
        \/ TClearMap(t)
        \/ TRead(t)
        \/ TUnlock(t)

ConcInit == Init /\ capArg \in 1..ConcMaxCapacity

ConcSpec == ConcInit /\ [][ConcNext]_vars

\* The steps of goroutine t once it has made its call.
Runs(t) ==
    \/ \E key \in ConcKeys \cup {""}, value \in ConcValues \cup {""} :
          TLock(t, key, value)
    \/ \E key \in ConcKeys \cup {""}, value \in ConcValues \cup {""} :
          TRLock(t, key, value)
    \/ TAnnounce(t)
    \/ TRBlock(t)
    \/ TGetLookup(t)
    \/ TPutLookup(t)
    \/ TRemoveNode(t)
    \/ TEvict(t)
    \/ TIndex(t)
    \/ TAddToHead(t)
    \/ TClearList(t)
    \/ TClearMap(t)
    \/ TRead(t)
    \/ TUnlock(t)

\* Lock() getting the writers' mutex, with or without readers inside.
Acquire(t) ==
    \/ TAnnounce(t)
    \/ \E key \in ConcKeys \cup {""}, value \in ConcValues \cup {""} :
          pc[t] = "lock" /\ TLock(t, key, value)

\* The scheduler runs every goroutine that can run; a goroutine that keeps
\* finding the writers' mutex free from time to time gets it (sync.Mutex
\* hands the mutex to a waiter that has waited long).  No goroutine has to
\* make a call.
FairSpec ==
    /\ ConcSpec
    /\ \A t \in Threads : WF_vars(Runs(t)) /\ SF_vars(Acquire(t))

\* ------------------------------------------------ fetch-on-miss callers
(***************************************************************************)
(* benchmarkCacheHit starts one goroutine per user; each draws a product   *)
(* id and runs getProductWithStats: Get; on a hit RecordHit and return; on *)
(* a miss RecordMiss, fetch the product, return if the fetch failed, else  *)
(* Put.  The request handlers (getProduct, the /cache/{id} handler) run    *)
(* the same Get, fetch, Put, any number of them at any time.  Get and Put   *)
(* are critical sections of the                                            *)
(* cache and take one step each.  The goroutines draw their id from one    *)
(* rand.Rand they share without a lock: a draw lands in the range or, with *)
(* another goroutine's draw racing or broken off, panics.  The panicking   *)
(* goroutine runs its deferred wg.Done(); then the runtime ends the        *)
(* process, and until it has the other goroutines and the waiter run on.   *)
(***************************************************************************)
\* atomic.AddInt64(&cs.misses, 1)
RecordMiss(cs) == [cs EXCEPT !.misses = cs.misses + 1]

\* atomic.AddInt64(&cs.hits, 1)
RecordHit(cs) == [cs EXCEPT !.hits = cs.hits + 1]

\* GetStats: hits, misses and hitRate = hits / total * 100 when total > 0,
\* else 0.  The float is kept as the fraction num / den.
StatsOf(hits, misses) ==
    LET total == hits + misses
    IN  [hits |-> hits, misses |-> misses,
         hitRate |-> IF total > 0 THEN [num |-> hits * 100, den |-> total]
                     ELSE [num |-> 0, den |-> 1]]

\* GetStats with no write between its two loads.
GetStats(cs) == StatsOf(cs.hits, cs.misses)

\* A goroutine that returned: all it keeps is whether its Get hit.
Returned(outcome) == Local("", "", outcome, nil)

\* What a step of a request leaves alone.
Req1 == UNCHANGED <<err, capArg, hist, mutex, batch>>

\* No goroutine has panicked and ended the process.
Alive == \A t \in Threads : pc[t] \notin {"crash"}

(***************************************************************************)
(* A goroutine that missed its key and has its Put to make keeps, in the   *)
(* node field, whether another request has Put that key in the meantime:   *)
(*   0       no;                                                           *)
(*   n > 0   yes, when Size was n - 1, and no Put of another key since;    *)
(*   n < 0   yes, when Size was -n - 1, and a Put of another key since.    *)
(***************************************************************************)
Pending(u) == pc[u] \in {"miss", "fetch"}

RaceAfter(l, key, size) ==
    IF l.key = key
    THEN IF l.node > 0 THEN l.node ELSE size + 1
    ELSE IF l.node > 0 THEN 0 - l.node ELSE l.node

\* The goroutines' local variables after a Put of key by goroutine t (0:
\* by a request handler), made when Size was size.
NoteRace(t, key, size) ==
    [u \in Threads |->
        IF u = t THEN Returned("miss")
        ELSE IF Pending(u) THEN [local[u] EXCEPT !.node = RaceAfter(local[u], key, size)]
        ELSE local[u]]

\* A request handler's cache.Get(key), at any time (getProduct, the
\* /cache/{id} handler).
BOtherGet(key) ==
    LET r == Get(c, key)
    IN  /\ err = FALSE /\ Alive
        /\ c' = r.c
        /\ pre' = c
        /\ last' = Call("Get", key, "", r.value, r.ok, 0)
        /\ ref' = IF InSeq(ref, key) THEN RefUse(ref, key, capArg) ELSE ref
        /\ UNCHANGED <<pc, local, stats>> /\ Req1

\* A request handler's cache.Put(key, product), at any time after its Get
\* missed: the cache starts empty, where a Get of any key misses and
\* changes nothing, and the fetch takes as long as it takes.  The handler
\* counts in the global stats, not in the benchmark's.
BOtherPut(key, value) ==
    /\ err = FALSE /\ Alive
    /\ c' = Put(c, key, value)
    /\ pre' = c
    /\ last' = Call("Put", key, value, 0, TRUE, 0)
    /\ ref' = RefUse(ref, key, capArg)
    /\ local' = NoteRace(0, key, Size(c))
    /\ UNCHANGED <<pc, stats>> /\ Req1

\* id := r.Intn(productRange) + 1; cache.Get(key)
BGet(t, key) ==
    LET r == Get(c, key)
    IN  /\ err = FALSE
        /\ pc[t] = "idle"
        /\ c' = r.c
        /\ pre' = c
        /\ last' = Call("Get", key, "", r.value, r.ok, t)
        /\ ref' = IF InSeq(ref, key) THEN RefUse(ref, key, capArg) ELSE ref
        /\ local' = [local EXCEPT ![t] = Local("getProduct", key, "", nil)]
        /\ Goto(t, IF r.ok THEN "hit" ELSE "miss")
        /\ UNCHANGED <<stats>> /\ Req1

\* wg.Done() has run in goroutine t: it returned or it panicked.
Finished(t) == pc[t] \in {"done", "panicked"}

\* r.Intn on the shared rand.Rand panics: another goroutine has its draw to
\* make, or its draw was broken off by a panic.
BPanic(t) ==
    /\ err = FALSE
    /\ pc[t] = "idle"
    /\ \E u \in Threads \ {t} : pc[u] \in {"idle", "panic", "panicked"}
    /\ Goto(t, "panic")
    /\ UNCHANGED <<c, pre, last, ref, local, stats>> /\ Req1

\* The panicking goroutine's deferred wg.Done().
BDeferred(t) ==
    /\ pc[t] = "panic"
    /\ Goto(t, "panicked")
    /\ UNCHANGED <<c, pre, last, ref, local, stats>> /\ Req1

\* The deferred calls of the panicking goroutine have run: the runtime ends
\* the process, whatever the other goroutines are doing.
BExit ==
    /\ \E t \in Threads : pc[t] = "panicked"
    /\ pc' = [u \in Threads |-> "crash"]
    /\ UNCHANGED <<c, pre, last, ref, local, stats>> /\ Req1

\* stats.RecordHit() and return, or stats.RecordMiss()
BRecord(t) ==
    /\ pc[t] \in {"hit", "miss"}
    /\ stats' = IF pc[t] = "hit" THEN RecordHit(stats) ELSE RecordMiss(stats)
    /\ local' = IF pc[t] = "hit" THEN [local EXCEPT ![t] = Returned("hit")] ELSE local
    /\ Goto(t, IF pc[t] = "hit" THEN "done" ELSE "fetch")
    /\ UNCHANGED <<c, pre, last, ref>> /\ Req1

\* getProductDetailsFromAPI returned an error: return without a Put.
BFetchFails(t) ==
    /\ pc[t] = "fetch"
    /\ local' = [local EXCEPT ![t] = Returned("miss")]
    /\ Goto(t, "done")
    /\ UNCHANGED <<c, pre, last, ref, stats>> /\ Req1

\* getProductDetailsFromAPI returned a product: cache.Put(key, product)
BPut(t, value) ==
    /\ pc[t] = "fetch"
    /\ c' = Put(c, local[t].key, value)
    /\ pre' = c
    /\ last' = Call("Put", local[t].key, value, local[t].node, TRUE, t)
    /\ ref' = RefUse(ref, local[t].key, capArg)
    /\ local' = NoteRace(t, local[t].key, Size(c))
    /\ Goto(t, "done")
    /\ UNCHANGED stats /\ Req1

\* wg.Wait(); return localStats.GetStats().  The call is kept in last with
\* the hit rate as ret and the sum of the hits and misses returned as n.
BReport ==
    /\ \A t \in Threads : Finished(t)
    /\ last.op # "GetStats"
    /\ last' = LET r == GetStats(stats)
               IN  Call("GetStats", "", "", r.hitRate, TRUE, r.hits + r.misses)
    /\ pre' = c
    /\ UNCHANGED <<c, ref, pc, local, stats>> /\ Req1

FetchNext ==
    \/ \E key \in ConcKeys : BOtherGet(key)
    \/ \E key \in ConcKeys, value \in Values : BOtherPut(key, value)
    \/ \E t \in Threads :
          \/ \E key \in ConcKeys : BGet(t, key)
          \/ BPanic(t)
          \/ BDeferred(t)
          \/ BRecord(t)
          \/ BFetchFails(t)
          \/ \E value \in Values : BPut(t, value)
    \/ BReport
    \/ BExit

\* The cache is a parameter of benchmarkCacheHit and of the handlers (main
\* passes one of capacity 5); small capacities are taken so that the keys
\* at hand fill it.
FetchInit == Init /\ capArg \in 1..ConcMaxCapacity

FetchSpec == FetchInit /\ [][FetchNext]_vars

\* ------------------------------------------------- CacheStats on its own
(***************************************************************************)
(* CacheStats has a fourth method, Reset, which nothing in the program     *)
(* calls: benchmarkCacheHit and the handlers only record and read.  Here   *)
(* goroutines call every method of one CacheStats; Reset is two atomic     *)
(* stores, and other goroutines' calls come between them.                  *)
(***************************************************************************)
MaxCount == 3

\* Reset: atomic.StoreInt64(&cs.hits, 0)
ResetHits(cs) == [cs EXCEPT !.hits = 0]

\* Reset: atomic.StoreInt64(&cs.misses, 0)
ResetMisses(cs) == [cs EXCEPT !.misses = 0]

\* Reset, run without another goroutine in between.
Reset(cs) == ResetMisses(ResetHits(cs))

\* What a call on the CacheStats leaves alone.
Stats1 ==
    UNCHANGED <<c, err, capArg, pre, ref, hist, mutex, local, batch>>

SRecordHit(t) ==
    /\ pc[t] = "idle"
    /\ stats.hits < MaxCount
    /\ stats' = RecordHit(stats)
    /\ last' = Call("RecordHit", "", "", "", TRUE, t)
    /\ UNCHANGED pc /\ Stats1

SRecordMiss(t) ==
    /\ pc[t] = "idle"
    /\ stats.misses < MaxCount
    /\ stats' = RecordMiss(stats)
    /\ last' = Call("RecordMiss", "", "", "", TRUE, t)
    /\ UNCHANGED pc /\ Stats1

\* GetStats, its first load: hits = atomic.LoadInt64(&cs.hits), kept in the
\* goroutine's local variable (the node field).
SLoadHits(t) ==
    /\ pc[t] = "idle"
    /\ local' = [local EXCEPT ![t] = Local("GetStats", "", "", stats.hits)]
    /\ Goto(t, "load")
    /\ UNCHANGED <<c, err, capArg, pre, last, ref, hist, mutex, batch, stats>>

\* GetStats, its second load and the return.
SGetStats(t) ==
    /\ pc[t] = "load"
    /\ last' = LET r == StatsOf(local[t].node, stats.misses)
               IN  Call("GetStats", "", "", r.hitRate, TRUE, r.hits + r.misses)
    /\ local' = [local EXCEPT ![t] = NoLocal]
    /\ Goto(t, "idle")
    /\ UNCHANGED <<c, err, capArg, pre, ref, hist, mutex, batch, stats>>

\* Reset, its first store.
SResetHits(t) ==
    /\ pc[t] = "idle"
    /\ stats' = ResetHits(stats)
    /\ last' = Call("Reset", "", "", "", TRUE, t)
    /\ Goto(t, "reset")
    /\ Stats1

\* Reset, its second store; the call returns.
SResetMisses(t) ==
    /\ pc[t] = "reset"
    /\ stats' = ResetMisses(stats)
    /\ Goto(t, "idle")
    /\ UNCHANGED last /\ Stats1

StatsNext ==
    \E t \in Threads :
        \/ SRecordHit(t)
        \/ SRecordMiss(t)
        \/ SLoadHits(t)
        \/ SGetStats(t)
        \/ SResetHits(t)
        \/ SResetMisses(t)

StatsSpec == FetchInit /\ [][StatsNext]_vars


\* ------------------------------------------------------------- reading
\* The key at the tail, and the value stored under a present key.
TailKey(s) == s.node[s.Tail].Key
ValueOf(s, key) == s.node[s.Cache[key]].Value
Present(s) == DOMAIN s.Cache

\* The values of all present keys but k are what they were in s0.
SameValuesExcept(s0, s, k) ==
    \A x \in (Present(s0) \cap Present(s)) \ {k} : ValueOf(s, x) = ValueOf(s0, x)

\* The last call was a Put of a key that was absent, made on a full cache.
PutNewOnFull == last.op = "Put" /\ last.key \notin Present(pre)
                /\ Size(pre) >= pre.Capacity

\* The calls so far: a run filling the cache, then mid, then the call `last`.
RunMidLast == hist.live /\ hist.fin /\ Len(hist.run) = c.Capacity

\* --------------------------------------------------------------- claims
\* C1: with a valid capacity, after every completed public call
\* 0 <= Size() <= Capacity, and a Size call reports exactly that number.
CapacityInvariant ==
    err = FALSE =>
        /\ 0 <= Size(c)
        /\ Size(c) <= c.Capacity
        /\ (last.op = "Size" => last.n = Size(c) /\ last.n <= c.Capacity)

\* C1 witness: a Put of a new key was made on a full cache, which is full after it.
CapacityWitness ==
    err = FALSE /\ PutNewOnFull /\ Size(c) = c.Capacity /\ c.Capacity = MaxCapacity

\* C2: the keys read from Head to Tail are the present keys in the order of
\* their last use (Put, or Get hit), most recent first: the list equals the
\* order kept by the reference LRU model.
RecencyOrder ==
    err = FALSE =>
        /\ ListKeys(c) = ref
        /\ {ListKeys(c)[i] : i \in 1..Len(ListKeys(c))} = Present(c)

\* C2 witness: a Get hit on the tail of a three-entry list reordered it.
RecencyWitness ==
    /\ err = FALSE
    /\ last.op = "Get" /\ last.ok
    /\ ListKeys(pre) = <<"C", "B", "A">>
    /\ ListKeys(c) = <<"A", "C", "B">>

\* C3: (a) after Capacity + 1 Puts of distinct keys into an empty cache the
\* first key, and only it, is gone and Size() = Capacity; (b) any Put of a new
\* key into a full cache removes exactly one entry, the one at the tail.
EvictionCorrectness ==
    err = FALSE =>
        /\ (hist.live /\ hist.mid = NoCall /\ Len(hist.run) = c.Capacity + 1) =>
              /\ ~Has(c, hist.run[1]).ok
              /\ \A i \in 2..(c.Capacity + 1) : Has(c, hist.run[i]).ok
              /\ Size(c) = c.Capacity
        /\ PutNewOnFull =>
              /\ Present(c) = (Present(pre) \ {TailKey(pre)}) \cup {last.key}
              /\ TailKey(pre) \in Present(pre)
              /\ Size(c) = Size(pre)
              /\ SameValuesExcept(pre, c, last.key)

\* C3 witness: capacity 3, Puts of A, B, C, D in that order; A was evicted.
EvictionWitness ==
    /\ err = FALSE /\ c.Capacity = 3
    /\ hist.live /\ hist.run = <<"A", "B", "C", "D">>
    /\ Present(c) = {"B", "C", "D"}

\* C4: a Get on a present key returns its current value with found = true,
\* makes the key Head and keeps the order of the other entries; so after a run
\* filling a cache of capacity >= 2, a Get of the oldest key followed by a Put
\* of a new key evicts the second oldest key, not the one just read.
GetHitPromotes ==
    err = FALSE =>
        /\ (last.op = "Get" /\ last.key \in Present(pre)) =>
              /\ last.ok
              /\ last.ret = ValueOf(pre, last.key)
              /\ c.Head = pre.Cache[last.key]
              /\ ListKeys(c) = <<last.key>> \o Without(ListKeys(pre), last.key)
              /\ c.Cache = pre.Cache
              /\ SameValuesExcept(pre, c, "") /\ Size(c) = Size(pre)
        /\ (RunMidLast /\ c.Capacity >= 2 /\ hist.mid.op = "Get"
               /\ hist.mid.key = hist.run[1] /\ PutNewOnFull) =>
              /\ Present(c) = (Present(pre) \ {hist.run[2]}) \cup {last.key}
              /\ Has(c, hist.run[1]).ok

\* C4 witness: capacity 3, Put A, B, C, then Get(A), then Put(D): B is gone.
GetHitWitness ==
    /\ err = FALSE /\ c.Capacity = 3
    /\ RunMidLast /\ hist.run = <<"A", "B", "C">>
    /\ hist.mid.op = "Get" /\ hist.mid.key = "A" /\ hist.mid.ok
    /\ last.op = "Put" /\ last.key = "D"
    /\ ListKeys(c) = <<"D", "A", "C">>

\* C5: a Put on a present key overwrites the value (a following Get returns
\* it, true), makes the key Head, keeps Size and evicts nothing, full cache
\* or not; the next Put of a new key into the full cache then evicts the
\* second oldest key of the run.
PutExistingUpdates ==
    err = FALSE =>
        /\ (last.op = "Put" /\ last.key \in Present(pre)) =>
              /\ Get(c, last.key).ok
              /\ Get(c, last.key).value = last.value
              /\ c.Head = pre.Cache[last.key]
              /\ ListKeys(c) = <<last.key>> \o Without(ListKeys(pre), last.key)
              /\ Size(c) = Size(pre)
              /\ c.Cache = pre.Cache
              /\ SameValuesExcept(pre, c, last.key)
        /\ (RunMidLast /\ c.Capacity >= 2 /\ hist.mid.op = "Put"
               /\ hist.mid.key = hist.run[1] /\ PutNewOnFull) =>
              /\ Present(c) = (Present(pre) \ {hist.run[2]}) \cup {last.key}
              /\ ValueOf(c, hist.run[1]) = hist.mid.value

\* C5 witness: a Put changed the value of the oldest key of a full cache.
PutExistingWitness ==
    /\ err = FALSE /\ c.Capacity = 3
    /\ last.op = "Put" /\ last.key \in Present(pre)
    /\ Size(pre) = pre.Capacity
    /\ TailKey(pre) = last.key
    /\ ValueOf(pre, last.key) = "v1" /\ last.value = "v2"

\* C6: Has(k) returns true exactly when k is in the index and changes
\* nothing, as do Size and IsEmpty; a Has on the least recently used key of
\* a full cache does not keep the next Put of a new key from evicting it.
HasIsPure ==
    err = FALSE =>
        /\ last.op = "Has" => (c = pre /\ (last.ok <=> last.key \in Present(pre)))
        /\ last.op = "Size" => (c = pre /\ last.n = Cardinality(Present(pre)))
        /\ last.op = "IsEmpty" => (c = pre /\ (last.ok <=> Present(pre) = {}))
        /\ (RunMidLast /\ hist.mid.op = "Has" /\ hist.mid.key = hist.run[1]
               /\ PutNewOnFull) =>
              /\ hist.mid.ok
              /\ ~Has(c, hist.run[1]).ok

\* C6 witness: capacity 3, Put A, B, C, then Has(A), then Put(D): A is gone.
HasWitness ==
    /\ err = FALSE /\ c.Capacity = 3
    /\ RunMidLast /\ hist.run = <<"A", "B", "C">>
    /\ hist.mid.op = "Has" /\ hist.mid.key = "A" /\ hist.mid.ok
    /\ last.op = "Put" /\ last.key = "D"
    /\ Present(c) = {"B", "C", "D"}

\* C7: a Get of an absent key returns ("", false) and leaves the cache as
\* it was.
GetMissIsPure ==
    err = FALSE =>
        ((last.op = "Get" /\ last.key \notin Present(pre)) =>
            (last.ret = "" /\ last.ok = FALSE /\ c = pre))

\* C7 witness: a Get missed on a cache that holds entries.
GetMissWitness ==
    /\ err = FALSE
    /\ last.op = "Get" /\ last.key \notin Present(pre)
    /\ Size(pre) = 2

\* C8: after Clear, Size() = 0, IsEmpty(), Head and Tail are nil, Get and
\* Has find none of the keys that were present, and the cache is in the very
\* state NewLRUCache returns for its capacity, so every later call acts as
\* on a new cache.
ClearResets ==
    err = FALSE =>
        (last.op = "Clear" =>
            /\ Size(c) = 0 /\ IsEmpty(c)
            /\ c.Head = nil /\ c.Tail = nil
            /\ \A k \in Present(pre) : ~Get(c, k).ok /\ ~Has(c, k).ok
            /\ c = NewLRUCache(capArg).cache)

\* C8 witness: Clear was called on a full cache of capacity 3.
ClearWitness ==
    /\ err = FALSE
    /\ last.op = "Clear"
    /\ Size(pre) = 3

\* C9: NewLRUCache fails, returning no cache, exactly for capacity <= 0; for
\* capacity > 0 it returns an empty cache (Size 0, Head and Tail nil) of that
\* capacity.
ConstructionChecked ==
    /\ err <=> capArg <= 0
    /\ err => c = NilCache /\ last.op = "NewLRUCache" /\ ~last.ok
    /\ (~err /\ last.op = "NewLRUCache") =>
          /\ Size(c) = 0 /\ c.Head = nil /\ c.Tail = nil
          /\ c.Capacity = capArg /\ last.ok

\* C9 witness: NewLRUCache(0) returned an error and no cache.
ConstructionWitness == capArg = 0 /\ err /\ c = NilCache

\* ------------------------------------------------- structural invariants
Distinct(seq) == \A i, j \in 1..Len(seq) : seq[i] = seq[j] => i = j
Elems(seq) == {seq[i] : i \in 1..Len(seq)}
Reverse(seq) == [i \in 1..Len(seq) |-> seq[Len(seq) + 1 - i]]

\* I1: 0 <= |index| <= capacity
SizeWithinCapacity(s) == 0 <= len(s.Cache) /\ len(s.Cache) <= s.Capacity

\* I2: the nodes on the list are the nodes in the index, once each, each
\* under its own key.
IndexMatchesList(s) ==
    /\ LET ns == ListNodes(s)
       IN  Distinct(ns) /\ Elems(ns) = Range(s.Cache) /\ Len(ns) = len(s.Cache)
    /\ \A k \in DOMAIN s.Cache : s.node[s.Cache[k]].Key = k

\* I3: a simple doubly linked chain from Head to Tail.
WellFormedList(s) ==
    /\ (s.Head = nil) <=> (s.Tail = nil)
    /\ (s.Head = nil) <=> (len(s.Cache) = 0)
    /\ s.Head # nil => s.node[s.Head].Prev = nil /\ s.node[s.Tail].Next = nil
    /\ LET ns == ListNodes(s)
       IN  /\ \A n \in Elems(ns) :
                /\ s.node[n].Next # nil => s.node[s.node[n].Next].Prev = n
                /\ s.node[n].Prev # nil => s.node[s.node[n].Prev].Next = n
           /\ Distinct(ns)
           /\ s.Head # nil => ns[Len(ns)] = s.Tail
           /\ WalkBack(s, s.Tail, Fuel) = Reverse(ns)

\* No goroutine is inside a critical section: each is outside a call or
\* still waiting for the mutex.
Quiescent == \A t \in Threads : pc[t] \in {"idle", "lock", "wait", "rwait"}

\* C10: with goroutines interleaving Get, Put, Has, Size, IsEmpty and Clear
\* on overlapping keys, whenever no goroutine is inside a critical section
\* the size is within the capacity, index and list correspond one to one,
\* the list is a well-formed chain, and its order is the recency order of the
\* calls in the order they acquired the lock.
ConcurrentInvariants ==
    (err = FALSE /\ Quiescent) =>
        /\ SizeWithinCapacity(c)
        /\ IndexMatchesList(c)
        /\ WellFormedList(c)
        /\ ListKeys(c) = ref

\* C10 witness: calls that held the lock one after the other left a full
\* cache of capacity 2 with B used after C; now one goroutine waits for the
\* lock to Put, the other to Get, and none is inside a critical section.
ConcurrentWitness ==
    /\ err = FALSE /\ Quiescent
    /\ c.Capacity = 2
    /\ pc[1] = "lock" /\ local[1].op = "Put"
    /\ pc[2] = "lock" /\ local[2].op = "Get"
    /\ ListKeys(c) = <<"B", "C">>

\* C11: after every public call the nodes reached from Head by Next are
\* exactly the nodes in the index, each once, each under its own Key, and
\* len(index) is the length of the list walked from Head to Tail.
IndexListConsistent ==
    err = FALSE =>
        /\ IndexMatchesList(c)
        /\ Len(ListNodes(c)) = Size(c)
        /\ Len(WalkBack(c, c.Tail, Fuel)) = Size(c)

\* C11 witness: a full cache of capacity 3 after a Put that evicted its tail.
IndexListWitness ==
    /\ err = FALSE /\ c.Capacity = 3
    /\ PutNewOnFull
    /\ Len(ListNodes(c)) = 3
    /\ Elems(ListNodes(c)) = Range(c.Cache)

\* C12: after every public call Head.Prev and Tail.Next are nil, neighbours
\* point at each other, the chain has no cycle and ends at Tail; Head and
\* Tail are nil exactly when the cache is empty, and equal when it holds one
\* entry.
ListWellFormed ==
    err = FALSE =>
        /\ WellFormedList(c)
        /\ (c.Head = nil /\ c.Tail = nil) <=> IsEmpty(c)
        /\ Size(c) = 1 => (c.Head = c.Tail /\ c.Head # nil)

\* C12 witness: a Get moved the middle node of a three-node list to Head.
ListWellFormedWitness ==
    /\ err = FALSE
    /\ last.op = "Get" /\ last.key = "B"
    /\ ListKeys(pre) = <<"C", "B", "A">>
    /\ ListKeys(c) = <<"B", "C", "A">>

\* C14: with capacity 1, after any Put(k, v) the cache holds exactly k
\* (Size 1, Head = Tail, a one-node list); a Put of a second, distinct key
\* evicts the first.
CapacityOne ==
    (err = FALSE /\ c.Capacity = 1 /\ last.op = "Put") =>
        /\ Present(c) = {last.key}
        /\ Size(c) = 1
        /\ c.Head = c.Tail /\ c.Head = c.Cache[last.key]
        /\ ListKeys(c) = <<last.key>>
        /\ ValueOf(c, last.key) = last.value
        /\ \A k \in Present(pre) \ {last.key} : ~Has(c, k).ok

\* C14 witness: capacity 1, A was cached, then B was Put.
CapacityOneWitness ==
    /\ err = FALSE /\ c.Capacity = 1
    /\ last.op = "Put" /\ last.key = "B"
    /\ Present(pre) = {"A"}
    /\ Present(c) = {"B"}

\* C18: no public call changes Capacity: it is always the value that was
\* passed to NewLRUCache.
CapacityImmutable ==
    err = FALSE => (c.Capacity = capArg /\ pre.Capacity = capArg)

\* C18 witness: a cache of capacity 2 was filled and then cleared.
CapacityImmutableWitness ==
    /\ err = FALSE /\ capArg = 2
    /\ last.op = "Clear"
    /\ Size(pre) = 2

\* A goroutine is inside a critical section from the return of Lock / RLock
\* to its Unlock / RUnlock.
Inside(t) == pc[t] \notin {"idle", "lock", "wait", "rwait"}

\* The lock or the read lock is there for goroutine t to take.
CanAcquire(t) ==
    \/ pc[t] = "lock" /\ mutex.w = 0 /\ mutex.p = 0
          /\ (lockKind(local[t].op) = "w" => mutex.r = {})
    \/ pc[t] = "wait" /\ mutex.r = {}

\* C16: in a Put of a new key the capacity check, and the removal of the tail
\* from list and index, come before the new entry is put in the index and
\* in the list: at no step of Put does the index or the list hold more than
\* Capacity entries.
EvictBeforeInsert ==
    err = FALSE =>
        /\ len(c.Cache) <= c.Capacity
        /\ Len(ListNodes(c)) <= c.Capacity
        /\ \A t \in Threads :
              /\ pc[t] = "evict" =>
                    /\ local[t].node \notin Range(c.Cache)
                    /\ local[t].node \notin Elems(ListNodes(c))
              /\ pc[t] = "index" =>
                    /\ len(c.Cache) < c.Capacity
                    /\ Len(ListNodes(c)) < c.Capacity
                    /\ local[t].node \notin Elems(ListNodes(c))
              /\ pc[t] = "link" =>
                    /\ c.Cache[local[t].key] = local[t].node
                    /\ Len(ListNodes(c)) < c.Capacity

\* C16 witness: a Put into a full cache of capacity 2 has removed the tail,
\* which nothing has reclaimed yet, and is about to index its new node.
EvictBeforeInsertWitness ==
    /\ err = FALSE /\ c.Capacity = 2
    /\ \E t \in Threads :
          /\ pc[t] = "index"
          /\ len(c.Cache) = 1
          /\ \E n \in DOMAIN c.node :
                n # local[t].node /\ n \notin Range(c.Cache)

\* C17: while a Get, Put or Clear is inside its critical section no other
\* call of any kind is inside one; Size, IsEmpty and Has are inside under the
\* read lock only, so they overlap with each other and never with a Get, Put
\* or Clear.
LockingDiscipline ==
    \A t \in Threads :
        Inside(t) =>
            IF local[t].op \in {"Get", "Put", "Clear"}
            THEN /\ mutex.w = t /\ mutex.r = {}
                 /\ \A u \in Threads \ {t} : ~Inside(u)
            ELSE /\ t \in mutex.r /\ mutex.w = 0
                 /\ \A u \in Threads \ {t} :
                       Inside(u) => local[u].op \in {"Size", "IsEmpty", "Has"}

\* C17 witness: a Has and a Size are inside their critical sections at once.
LockingDisciplineWitness ==
    /\ pc[1] = "body" /\ local[1].op = "Has"
    /\ pc[2] = "unlock" /\ local[2].op = "Size"
    /\ mutex.r = {1, 2}

\* C13: no reachable state has calls in progress with none of them able to
\* take a step, and under fair scheduling every call that was made gets the
\* lock, runs to its end and returns.
NoDeadlock ==
    /\ []((\E t \in Threads : pc[t] # "idle") =>
             (\E t \in Threads : Inside(t) \/ CanAcquire(t)))
    /\ \A t \in Threads : (pc[t] # "idle") ~> (pc[t] = "idle")

\* C13 witness: a Put waits for the reader inside to leave, having announced
\* itself.
NoDeadlockWitness ==
    /\ pc[1] = "wait" /\ local[1].op = "Put" /\ mutex.p = 1
    /\ pc[2] = "body" /\ local[2].op = "Has" /\ mutex.r = {2}

\* C15: BatchGet(keys) does a Get for each key in sequence order, so the
\* list ends in the order those Gets leave; the mapping has an entry for
\* every key asked for, the cached value on a hit and "" on a miss; anyFound
\* is false only for an empty key sequence.
BatchGetResult ==
    (err = FALSE /\ last.op = "BatchGet") =>
        /\ DOMAIN batch.values = Elems(batch.keys)
        /\ \A k \in DOMAIN batch.values :
              batch.values[k] = IF k \in Present(pre) THEN ValueOf(pre, k) ELSE ""
        /\ batch.anyFound = (batch.keys # <<>>)
        /\ last.ok = batch.anyFound
        /\ ListKeys(c) = GetEach(ListKeys(pre), batch.keys, pre.Capacity)
        /\ Present(c) = Present(pre)
        /\ SameValuesExcept(pre, c, "")

\* C15 witness: BatchGet(<<"A", "C">>) on a cache holding B before A: A is a
\* hit and moves to Head, C is a miss and gets "".
BatchGetWitness ==
    /\ err = FALSE /\ last.op = "BatchGet"
    /\ batch.keys = <<"A", "C">>
    /\ ListKeys(pre) = <<"B", "A">>
    /\ ListKeys(c) = <<"A", "B">>
    /\ batch.values["C"] = ""
    /\ batch.anyFound

\* The last call was the Put of a goroutine that had missed its key, made
\* after another request, which had missed it too, Put the same key.
SecondPut == last.op = "Put" /\ last.n \in Threads /\ last.ret # 0

\* The last Put found its key: no entry came or went, the value is its own.
TookExistingPath ==
    /\ last.key \in Present(pre)
    /\ Present(c) = Present(pre)
    /\ Size(c) = Size(pre)
    /\ SameValuesExcept(pre, c, last.key)

\* The cache holds one entry for the last Put's key, with its value.
OneEntryForKey ==
    /\ last.key \in Present(c)
    /\ ValueOf(c, last.key) = last.value
    /\ Cardinality({i \in 1..Len(ListKeys(c)) : ListKeys(c)[i] = last.key}) = 1
    /\ IndexMatchesList(c)

\* C19: two requests that both missed the same key both Put it.  In every
\* interleaving the second of the two Puts finds the key: the cache keeps
\* one entry for it, the second Put adds nothing to Size, no other entry
\* goes, and the value is the second Put's.
FetchRace ==
    (err = FALSE /\ SecondPut) => (TookExistingPath /\ OneEntryForKey)

\* C19, amended: the second Put leaves one entry for the key, with its
\* value.  With no Put of another key between the two it finds the key, no
\* entry comes or goes and Size is at most one more than before the first
\* Put.  With one, the key may have been evicted: then the second Put
\* inserts it again and, on a full cache, evicts the tail.
FetchRaceAmended ==
    (err = FALSE /\ SecondPut) =>
        /\ OneEntryForKey
        /\ last.ret > 0 => (TookExistingPath /\ Size(c) <= last.ret)
        /\ last.key \in Present(pre) => TookExistingPath
        /\ last.key \notin Present(pre) =>
              /\ last.ret < 0
              /\ Present(c) = (Present(pre) \cup {last.key})
                     \ (IF Size(pre) >= pre.Capacity THEN {TailKey(pre)} ELSE {})
              /\ SameValuesExcept(pre, c, last.key)

\* C19 witness: goroutines 1 and 2 both missed A in a full cache of capacity
\* 2; 1 Put v1, evicting, then 2 Put v2 over it and B stayed.
FetchRaceWitness ==
    /\ err = FALSE /\ c.Capacity = 2
    /\ last = Call("Put", "A", "v2", 3, TRUE, 2)
    /\ pc[1] = "done"
    /\ ValueOf(pre, "A") = "v1"
    /\ ListKeys(c) = <<"A", "B">>
    /\ ValueOf(c, "A") = "v2"

\* C20: every goroutine of the benchmark counts one hit or one miss before
\* its fetch can fail, so when all have finished hits + misses is the number
\* of users, and that is what GetStats reports; a hit is counted only for a
\* Get that found its key in the cache.
BenchAccounting ==
    err = FALSE =>
        /\ (\A t \in Threads : Finished(t)) =>
              stats.hits + stats.misses = NumThreads
        /\ last.op = "GetStats" => last.n = NumThreads
        /\ \A t \in Threads :
              (last.op = "Get" /\ last.n = t /\ pc[t] \in {"hit", "miss"}) =>
                  ((pc[t] = "hit") <=> (last.key \in Present(pre)))

\* C20 witness: goroutine 1 panicked in its draw and goroutine 2 hit; the
\* WaitGroup let the waiter through and GetStats reported 1 for 2 users.
BenchAccountingWitness ==
    /\ err = FALSE
    /\ pc[1] = "panicked" /\ pc[2] = "done"
    /\ last.op = "GetStats" /\ last.n = 1
    /\ last.ret = [num |-> 100, den |-> 1]
    /\ stats = CacheStats(1, 0)

====
